---- MODULE Spec2Model ----
(***************************************************************************)
(* A model of analyzer.py: the CSV loader and review renderer, the model   *)
(* invoker loop with fence stripping and JSON parsing, and the top-level   *)
(* run (report, save, dump, exit code).                                    *)
(*                                                                         *)
(* Text is modelled as a sequence of one-character strings, so that        *)
(* str.strip, str.startswith, str.split and str.replace are computed the   *)
(* way Python computes them.                                               *)
(***************************************************************************)
EXTENDS Integers, Sequences, FiniteSets, TLC

VARIABLES
    pc,             \* position of the run: start, loop, report, save, dump, except, done, reply, cleaned
    file,           \* the input file: [exists, header, rows]
    column_name,    \* argument of analizza_dati
    max_reviews,    \* argument of analizza_dati
    use_new_api,    \* USE_NEW_API, fixed at import time
    reviews_list,   \* the truncated head slice of the chosen column, as strings
    reviews,        \* the rendered review block: entries [label, text]
    prompt,         \* the fields of the prompt that depend on the input
    idx,            \* position of the for loop in model_names (1-based)
    raw,            \* response.text of the current attempt
    text_response,  \* the local text_response of the current attempt
    last_error,     \* the local last_error
    calls,          \* every endpoint call made so far, in order
    log,            \* the logger's records, in order
    result,         \* the value analizza_dati returned
    raised,         \* the exception travelling to the top-level handler
    stdout,         \* what has been printed, in order
    saved,          \* the content of the output file
    exit_code       \* the process exit code, Running while the process runs

vars == <<pc, file, column_name, max_reviews, use_new_api, reviews_list, reviews,
          prompt, idx, raw, text_response, last_error, calls, log, result,
          raised, stdout, saved, exit_code>>

(***************************************************************************)
(* Bounds of the model.                                                    *)
(***************************************************************************)
MaxRows == 2
MaxValLen == 3

(***************************************************************************)
(* Text helpers: Python's str methods on sequences of characters.          *)
(***************************************************************************)
Whitespace == {" ", "\n"}

RECURSIVE LStrip(_)
LStrip(s) == IF s # <<>> /\ Head(s) \in Whitespace THEN LStrip(Tail(s)) ELSE s

RECURSIVE RStrip(_)
RStrip(s) ==
    IF s # <<>> /\ s[Len(s)] \in Whitespace
    THEN RStrip(SubSeq(s, 1, Len(s) - 1))
    ELSE s

\* str.strip()
Strip(s) == RStrip(LStrip(s))

\* str.startswith(p)
StartsWith(s, p) == Len(s) >= Len(p) /\ SubSeq(s, 1, Len(p)) = p

EndsWith(s, p) == Len(s) >= Len(p) /\ SubSeq(s, Len(s) - Len(p) + 1, Len(s)) = p

\* s[n:]
DropFirst(s, n) == SubSeq(s, n + 1, Len(s))

\* s[:n] for n >= 0
TakeFirst(s, n) == SubSeq(s, 1, IF n < Len(s) THEN n ELSE Len(s))

\* the text before the first occurrence of sep, or all of s when there is none
RECURSIVE Before(_, _)
Before(s, sep) ==
    IF s = <<>> \/ StartsWith(s, sep) THEN <<>>
    ELSE <<Head(s)>> \o Before(Tail(s), sep)

\* str.split(sep): the segments between the occurrences of sep, left to right
RECURSIVE Split(_, _)
Split(s, sep) ==
    LET first == Before(s, sep) IN
    IF Len(first) = Len(s) THEN <<s>>
    ELSE <<first>> \o Split(DropFirst(s, Len(first) + Len(sep)), sep)

\* str.replace(old, ''): every non-overlapping occurrence removed, left to right
RECURSIVE RemoveAll(_, _)
RemoveAll(s, old) ==
    IF s = <<>> THEN <<>>
    ELSE IF StartsWith(s, old) THEN RemoveAll(DropFirst(s, Len(old)), old)
    ELSE <<Head(s)>> \o RemoveAll(Tail(s), old)

(***************************************************************************)
(* Fence stripping, analizza_dati lines 160-164.                           *)
(***************************************************************************)
\* The backtick character; the token is spelled out because a backtick cannot
\* be written inside a TLA+ string.
Tick == "BACKTICK"
Fence == <<Tick, Tick, Tick>>
JsonTag == <<"j", "s", "o", "n">>

CleanFence(t) ==
    LET seg == Split(t, Fence)[2]
        inner == IF StartsWith(t, Fence)
                 THEN IF StartsWith(seg, JsonTag) THEN DropFirst(seg, 4) ELSE seg
                 ELSE t
    IN Strip(RemoveAll(inner, Fence))

(***************************************************************************)
(* json.loads on the fragment of JSON the model uses: the one-key object   *)
(* {"k":"<chars>"} and the empty array [], with surrounding whitespace.    *)
(* Every other text is a JSONDecodeError.                                  *)
(***************************************************************************)
Quote == "\""
ObjOpen == <<"{", Quote, "k", Quote, ":", Quote>>
ObjClose == <<Quote, "}">>
EmptyArray == <<"[", "]">>

NoValue == [type |-> "none", k |-> <<>>]
ObjectValue(v) == [type |-> "object", k |-> v]
ArrayValue == [type |-> "array", k |-> <<>>]

\* json.dumps of the one-key object, compact form
Serialize(v) == ObjOpen \o v \o ObjClose

Loads(t) ==
    LET s == Strip(t)
        mid == SubSeq(s, Len(ObjOpen) + 1, Len(s) - Len(ObjClose))
    IN  IF s = EmptyArray THEN [ok |-> TRUE, value |-> ArrayValue]
        ELSE IF /\ Len(s) >= Len(ObjOpen) + Len(ObjClose)
                /\ StartsWith(s, ObjOpen)
                /\ EndsWith(s, ObjClose)
                /\ \A i \in 1..Len(mid) : mid[i] # Quote
             THEN [ok |-> TRUE, value |-> ObjectValue(mid)]
             ELSE [ok |-> FALSE, value |-> NoValue]

(***************************************************************************)
(* The input file and pandas' reading of it.  A file is its header (the    *)
(* set of column names; empty only for a file that holds nothing) and its  *)
(* data rows, each a function from the header to the raw text of a cell.   *)
(***************************************************************************)
Override == "a-size-base 3"
Columns == {"body", Override}
\* "text" is a column name no header of the model holds
ColumnNames == Columns \cup {"text"}

NanToken == <<"n", "a", "n">>
\* pandas' default na_values, as far as the model's cells go
NAStrings == {<<>>, NanToken}
RawCells == {<<>>, NanToken, <<" ">>, <<" ", "n", "a", "n">>, <<"o", "k">>}

NoFile == [exists |-> FALSE, header |-> {}, rows |-> <<>>]
EmptyFile == [exists |-> TRUE, header |-> {}, rows |-> <<>>]

Tables(h, n, cells) == UNION {[1..k -> [h -> cells]] : k \in 0..n}

Files(n, cells) ==
    {NoFile, EmptyFile} \cup
    UNION {{[exists |-> TRUE, header |-> h, rows |-> r] : r \in Tables(h, n, cells)} :
           h \in (SUBSET Columns) \ {{}}}

\* a cell of the DataFrame: NaN, or a string
NaN == [na |-> TRUE, s |-> <<>>]
Str(t) == [na |-> FALSE, s |-> t]

ReadCsvCell(t) == IF t \in NAStrings THEN NaN ELSE Str(t)

\* pd.read_csv on a file that has a header
read_csv(f) ==
    [columns |-> f.header,
     rows |-> [i \in 1..Len(f.rows) |-> [c \in f.header |-> ReadCsvCell(f.rows[i][c])]]]

\* df[col] = df[col].fillna('')
fillna(df, col) ==
    [df EXCEPT !.rows =
        [i \in 1..Len(df.rows) |->
            [df.rows[i] EXCEPT ![col] = IF @.na THEN Str(<<>>) ELSE @]]]

\* df[col].astype(str).tolist()
astype_str(df, col) ==
    [i \in 1..Len(df.rows) |-> IF df.rows[i][col].na THEN NanToken ELSE df.rows[i][col].s]

(***************************************************************************)
(* Column selection, truncation, filtering and rendering, lines 66-72.     *)
(***************************************************************************)
TextColumnIgnoringOverride(df, col) == col

TextColumn(df, col) == IF Override \in df.columns THEN Override ELSE col

\* the filter of line 72 without its test against 'nan'
UsableWithoutNanTest(rev) == Strip(rev) # <<>>

\* the filter of line 72: rev.strip() and rev != 'nan'
Usable(rev) == Strip(rev) # <<>> /\ rev # NanToken

RECURSIVE RenderFrom(_, _)
RenderFrom(list, i) ==
    IF i > Len(list) THEN <<>>
    ELSE (IF Usable(list[i]) THEN <<[label |-> i, text |-> list[i]]>> ELSE <<>>)
         \o RenderFrom(list, i + 1)

\* the blocks numbered by their position among the rendered blocks
RenderRenumbered(list) ==
    LET kept == RenderFrom(list, 1)
    IN  [j \in 1..Len(kept) |-> [label |-> j, text |-> kept[j].text]]

\* the blocks "Recensione {i+1}: {rev}" of line 72, in order
Render(list) == RenderFrom(list, 1)

(***************************************************************************)
(* Errors: the class, where it was raised, the model identifier it comes   *)
(* from (0: none) and what its message carries.                            *)
(***************************************************************************)
NoError == [cls |-> "None", origin |-> "none", model |-> 0, carries |-> {}]
FileNotFound ==
    [cls |-> "FileNotFoundError", origin |-> "loader", model |-> 0, carries |-> {"path"}]
EmptyCsv ==
    [cls |-> "ValueError", origin |-> "loader", model |-> 0, carries |-> {"csv_empty"}]
MissingColumn ==
    [cls |-> "ValueError", origin |-> "loader", model |-> 0,
     carries |-> {"column_name", "available_columns"}]

LogRecord(level, event, model, text) ==
    [level |-> level, event |-> event, model |-> model, text |-> text]

(***************************************************************************)
(* analizza_dati, lines 50-126: validation, loading, rendering, prompt.    *)
(***************************************************************************)
Load ==
    /\ pc = "start"
    /\ LET started == <<LogRecord("info", "start", 0, <<>>)>>
           df0 == read_csv(file)
           df == fillna(df0, column_name)
           list == TakeFirst(astype_str(df, TextColumn(df, column_name)), max_reviews)
       IN  IF ~file.exists THEN
               /\ raised' = FileNotFound
               /\ log' = log \o started
               /\ pc' = "except"
               /\ UNCHANGED <<reviews_list, reviews, prompt>>
           ELSE IF file.header = {} THEN
               \* pd.errors.EmptyDataError, turned into a ValueError
               /\ raised' = EmptyCsv
               /\ log' = log \o started
               /\ pc' = "except"
               /\ UNCHANGED <<reviews_list, reviews, prompt>>
           ELSE IF column_name \notin df0.columns THEN
               \* raised inside the try, logged by the generic handler, re-raised
               /\ raised' = MissingColumn
               /\ log' = log \o started
                            \o <<LogRecord("info", "loaded", 0, <<>>),
                                 LogRecord("error", "load_error", 0, <<>>)>>
               /\ pc' = "except"
               /\ UNCHANGED <<reviews_list, reviews, prompt>>
           ELSE
               /\ reviews_list' = list
               /\ reviews' = Render(list)
               /\ prompt' = [numero_recensioni_analizzate |-> Len(list),
                             feedback |-> Render(list)]
               /\ log' = log \o started
                            \o <<LogRecord("info", "loaded", 0, <<>>),
                                 LogRecord("info", "prepared", 0, <<>>)>>
               /\ pc' = "loop"
               /\ UNCHANGED raised
    /\ UNCHANGED <<file, column_name, max_reviews, use_new_api, idx, raw,
                   text_response, last_error, calls, result, stdout, saved, exit_code>>

(***************************************************************************)
(* The model invoker, lines 83-97 and 129-184.                             *)
(***************************************************************************)
\* temperature and top_p are written as their decimal text
generation_config ==
    [temperature |-> "0.3", top_p |-> "0.8", top_k |-> 40, max_output_tokens |-> 4096]

model_names ==
    <<"models/gemini-2.5-flash", "models/gemini-2.0-flash", "models/gemini-flash-latest",
      "models/gemini-2.5-pro", "models/gemini-pro-latest">>

\* text_response[:500] of line 173
LoggedPrefixLen == 500

\* what the endpoint call can raise: the client's own error, or the
\* AttributeError of .strip() on a response whose text is None
EndpointFailures == {"APIError", "AttributeError"}

\* the replies an endpoint gives in the runs of Spec
Replies ==
    {Serialize(<<"x">>),
     Fence \o JsonTag \o <<"\n">> \o Serialize(<<"y">>) \o <<"\n">> \o Fence,
     EmptyArray,
     <<"o", "k">>}

\* one call of the endpoint and what came back
Call(i, outcome, reply) ==
    [model |-> model_names[i],
     api |-> IF use_new_api THEN "google.genai" ELSE "google.generativeai",
     config |-> generation_config,
     outcome |-> outcome, reply |-> reply]

EndpointError(cls, i) ==
    [cls |-> cls, origin |-> "invoker", model |-> i, carries |-> {"endpoint_error"}]

\* the decode error recorded as it is, without the ValueError around it
BareDecodeError(i) ==
    [cls |-> "JSONDecodeError", origin |-> "invoker", model |-> i,
     carries |-> {"json_decode_error"}]

\* line 174: ValueError(f"Risposta API non valida. Errore JSON: {e}")
ParseFailure(i) ==
    [cls |-> "ValueError", origin |-> "invoker", model |-> i,
     carries |-> {"json_decode_error"}]

GenericExhaustion ==
    [cls |-> "Exception", origin |-> "invoker", model |-> 0, carries |-> {"no_model_available"}]

\* the first error of the call kept, later ones dropped
KeepFirstError(prev, e) == IF prev = NoError THEN e ELSE prev

\* last_error = ..., lines 174 and 179
RecordError(prev, e) == e

\* the same identifier tried again (at most twice over the list's length)
RetrySame(i) == IF Len(calls) < Len(model_names) + 2 THEN i ELSE i + 1

\* continue, lines 175 and 180: the for loop moves to the next identifier
NextIdentifier(i) == i + 1

\* lines 132-157 when the call raises, then the handler of lines 177-180
AttemptRaises ==
    /\ pc = "loop"
    /\ idx <= Len(model_names)
    /\ \E cls \in EndpointFailures :
        /\ calls' = Append(calls, Call(idx, cls, <<>>))
        /\ log' = log \o <<LogRecord("info", "attempt", idx, <<>>),
                           LogRecord("warning", "model_unavailable", idx, <<>>)>>
        /\ last_error' = RecordError(last_error, EndpointError(cls, idx))
    /\ idx' = NextIdentifier(idx)
    /\ UNCHANGED <<pc, file, column_name, max_reviews, use_new_api, reviews_list,
                   reviews, prompt, raw, text_response, result, raised, stdout,
                   saved, exit_code>>

\* lines 132-175 when the call returns text: clean, parse, return or go on.
\* return_on_success is TRUE in the program: line 169 returns the parsed value.
ReplyAttempt(return_on_success) ==
    /\ pc = "loop"
    /\ idx <= Len(model_names)
    /\ \E r \in Replies :
        LET cleaned == CleanFence(Strip(r))
            parsed == Loads(cleaned)
        IN  /\ raw' = r
            /\ text_response' = cleaned
            /\ calls' = Append(calls, Call(idx, "reply", r))
            /\ IF parsed.ok THEN
                   /\ result' = parsed.value
                   /\ log' = log \o <<LogRecord("info", "attempt", idx, <<>>),
                                      LogRecord("info", "reply_received", idx, <<>>),
                                      LogRecord("info", "analysis_done", idx, <<>>)>>
                   /\ IF return_on_success
                      THEN pc' = "report" /\ idx' = idx
                      ELSE pc' = pc /\ idx' = NextIdentifier(idx)
                   /\ UNCHANGED last_error
               ELSE
                   /\ log' = log \o <<LogRecord("info", "attempt", idx, <<>>),
                                      LogRecord("info", "reply_received", idx, <<>>),
                                      LogRecord("error", "json_error", idx, <<>>),
                                      LogRecord("error", "reply_text", idx,
                                                TakeFirst(cleaned, LoggedPrefixLen))>>
                   /\ last_error' = RecordError(last_error, ParseFailure(idx))
                   /\ idx' = NextIdentifier(idx)
                   /\ UNCHANGED <<pc, result>>
    /\ UNCHANGED <<file, column_name, max_reviews, use_new_api, reviews_list,
                   reviews, prompt, raised, stdout, saved, exit_code>>

\* the loop without the return of line 169
AttemptReplyKeepsGoing == ReplyAttempt(FALSE)

AttemptReply == ReplyAttempt(TRUE)

\* lines 182-184: the list is exhausted
Exhausted ==
    /\ pc = "loop"
    /\ idx > Len(model_names)
    /\ log' = Append(log, LogRecord("error", "all_models_failed", 0, <<>>))
    /\ raised' = IF last_error # NoError THEN last_error ELSE GenericExhaustion
    /\ pc' = "except"
    /\ UNCHANGED <<file, column_name, max_reviews, use_new_api, reviews_list, reviews,
                   prompt, idx, raw, text_response, last_error, calls, result,
                   stdout, saved, exit_code>>

(***************************************************************************)
(* The top-level run, lines 240-261, with stampa_report and                *)
(* salva_risultati.                                                        *)
(***************************************************************************)
Running == -1

\* stampa_report: the banner is printed, then the first risultato.get fails
\* on a result that is no dict
stampa_report ==
    /\ pc = "report"
    /\ IF result.type = "object" THEN
           /\ stdout' = stdout \o <<"banner", "report">>
           /\ pc' = "save"
           /\ UNCHANGED raised
       ELSE
           /\ stdout' = Append(stdout, "banner")
           /\ raised' = [cls |-> "AttributeError", origin |-> "report", model |-> 0,
                         carries |-> {"get"}]
           /\ pc' = "except"
    /\ UNCHANGED <<file, column_name, max_reviews, use_new_api, reviews_list, reviews,
                   prompt, idx, raw, text_response, last_error, calls, log, result,
                   saved, exit_code>>

\* salva_risultati without its try/except: the write error reaches the caller
salva_risultati_raises ==
    /\ pc = "save"
    /\ \E written \in BOOLEAN :
        IF written THEN
            /\ saved' = result
            /\ log' = Append(log, LogRecord("info", "saved", 0, <<>>))
            /\ pc' = "dump"
            /\ UNCHANGED raised
        ELSE
            /\ raised' = [cls |-> "OSError", origin |-> "save", model |-> 0,
                          carries |-> {"output_file"}]
            /\ log' = Append(log, LogRecord("error", "save_error", 0, <<>>))
            /\ pc' = "except"
            /\ UNCHANGED saved
    /\ UNCHANGED <<file, column_name, max_reviews, use_new_api, reviews_list, reviews,
                   prompt, idx, raw, text_response, last_error, calls, result,
                   stdout, exit_code>>

\* salva_risultati, lines 186-193: the write succeeds, or its error is logged
salva_risultati ==
    /\ pc = "save"
    /\ \E written \in BOOLEAN :
        IF written THEN
            /\ saved' = result
            /\ log' = Append(log, LogRecord("info", "saved", 0, <<>>))
        ELSE
            /\ log' = Append(log, LogRecord("error", "save_error", 0, <<>>))
            /\ UNCHANGED saved
    /\ pc' = "dump"
    /\ UNCHANGED <<file, column_name, max_reviews, use_new_api, reviews_list, reviews,
                   prompt, idx, raw, text_response, last_error, calls, result,
                   raised, stdout, exit_code>>

\* lines 254-256, then the script ends
DumpJson ==
    /\ pc = "dump"
    /\ stdout' = Append(stdout, "json_dump")
    /\ exit_code' = 0
    /\ pc' = "done"
    /\ UNCHANGED <<file, column_name, max_reviews, use_new_api, reviews_list, reviews,
                   prompt, idx, raw, text_response, last_error, calls, log, result,
                   raised, saved>>

\* lines 258-261: the handler of the top-level run
TopLevelExcept ==
    /\ pc = "except"
    /\ log' = Append(log, LogRecord("error", "run_error", 0, <<>>))
    /\ stdout' = Append(stdout, "error")
    /\ exit_code' = 1
    /\ pc' = "done"
    /\ UNCHANGED <<file, column_name, max_reviews, use_new_api, reviews_list, reviews,
                   prompt, idx, raw, text_response, last_error, calls, result,
                   raised, saved>>

(***************************************************************************)
(* Specifications.                                                         *)
(***************************************************************************)
InitCommon ==
    /\ reviews_list = <<>>
    /\ reviews = <<>>
    /\ prompt = [numero_recensioni_analizzate |-> 0, feedback |-> <<>>]
    /\ idx = 1
    /\ text_response = <<>>
    /\ last_error = NoError
    /\ calls = <<>>
    /\ log = <<>>
    /\ result = NoValue
    /\ raised = NoError
    /\ stdout = <<>>
    /\ saved = NoValue
    /\ exit_code = Running

\* The whole run, over small files.
Init ==
    /\ pc = "start"
    /\ file \in Files(1, {<<>>, <<"o", "k">>})
    /\ column_name \in ColumnNames
    /\ max_reviews \in {0, 50}
    /\ use_new_api \in BOOLEAN
    /\ raw = <<>>
    /\ InitCommon

Next ==
    \/ Load
    \/ AttemptRaises
    \/ AttemptReply
    \/ Exhausted
    \/ stampa_report
    \/ salva_risultati
    \/ DumpJson
    \/ TopLevelExcept

Spec == Init /\ [][Next]_vars

\* The loader alone, over every table of the bounds.  The loader does not read
\* USE_NEW_API.
InitLoader ==
    /\ pc = "start"
    /\ file \in Files(MaxRows, RawCells)
    /\ column_name \in ColumnNames
    /\ max_reviews \in 0..(MaxRows + 1)
    /\ use_new_api = TRUE
    /\ raw = <<>>
    /\ InitCommon

SpecLoader == InitLoader /\ [][Load]_vars

(***************************************************************************)
(* Fence stripping and parsing alone, lines 147 and 159-167, over replies  *)
(* that hold a valid JSON object, bare or inside a Markdown fence.         *)
(***************************************************************************)
SeqsUpTo(S, n) == UNION {[1..k -> S] : k \in 0..n}

\* the string values of the JSON object the reply holds
Values == SeqsUpTo({Tick, "x"}, MaxValLen) \cup {JsonTag}

Wraps == {"bare", "fence", "fence_json"}

Wrap(w, padded, v) ==
    LET body == Serialize(v)
        core == CASE w = "bare" -> body
                  [] w = "fence" -> Fence \o <<"\n">> \o body \o <<"\n">> \o Fence
                  [] w = "fence_json" ->
                         Fence \o JsonTag \o <<"\n">> \o body \o <<"\n">> \o Fence
    IN  IF padded THEN <<" ">> \o core \o <<"\n">> ELSE core

CleanAndParse ==
    /\ pc = "reply"
    /\ text_response' = CleanFence(Strip(raw))
    /\ result' = Loads(text_response').value
    /\ pc' = "cleaned"
    /\ UNCHANGED <<file, column_name, max_reviews, use_new_api, reviews_list, reviews,
                   prompt, idx, raw, last_error, calls, log, raised, stdout, saved,
                   exit_code>>

InitClean ==
    /\ pc = "reply"
    /\ file = NoFile
    /\ column_name = "body"
    /\ max_reviews = 0
    /\ use_new_api \in BOOLEAN
    /\ raw \in {Wrap(w, padded, v) : w \in Wraps, padded \in BOOLEAN, v \in Values}
    /\ InitCommon

SpecClean == InitClean /\ [][CleanAndParse]_vars

(***************************************************************************)
(* Vocabulary of the properties.                                           *)
(***************************************************************************)
Min(a, b) == IF a < b THEN a ELSE b
Range(q) == {q[i] : i \in 1..Len(q)}

\* the reply of call c parsed as JSON after cleaning
ParsedReply(c) == Loads(CleanFence(Strip(c.reply)))
CallSucceeded(c) == c.outcome = "reply" /\ ParsedReply(c).ok
ParseFailed(c) == c.outcome = "reply" /\ ~ParsedReply(c).ok

\* analizza_dati has returned a value to the top-level run
Returned == result # NoValue /\ pc # "loop"
\* the loader has finished without an error
Loaded == pc # "start" /\ raised.origin # "loader"
\* the position of the column's text in the file matches the string the loader took
CellMatches(rev, cell) ==
    IF cell \in NAStrings THEN rev \in {<<>>, NanToken} ELSE rev = cell
TakenFrom(col) ==
    /\ Len(reviews_list) = Min(max_reviews, Len(file.rows))
    /\ \A i \in 1..Len(reviews_list) : CellMatches(reviews_list[i], file.rows[i][col])
Labels == {reviews[j].label : j \in 1..Len(reviews)}
SaveFailed == \E i \in 1..Len(log) : log[i].event = "save_error"

(***************************************************************************)
(* C1: the invoker returns the parsed reply of the first identifier, in    *)
(* list order, whose reply parses as JSON, and no identifier is called     *)
(* after one whose reply parsed.                                           *)
(***************************************************************************)
C1_FirstParsableReplyWins ==
    /\ \A i \in 1..Len(calls) : calls[i].model = model_names[i]
    /\ \A i \in 1..(Len(calls) - 1) : ~CallSucceeded(calls[i])
    /\ Returned =>
        /\ calls # <<>>
        /\ CallSucceeded(calls[Len(calls)])
        /\ result = ParsedReply(calls[Len(calls)]).value
    /\ (calls # <<>> /\ CallSucceeded(calls[Len(calls)])) => Returned

\* first identifier fails, second succeeds, the run ends without a third call
C1_Witness ==
    /\ pc = "done"
    /\ Len(calls) = 2
    /\ ~CallSucceeded(calls[1])
    /\ result = ObjectValue(<<"y">>)

(***************************************************************************)
(* C2: when every identifier fails, the error raised is the one recorded   *)
(* for the last identifier attempted, never an earlier one; the generic    *)
(* exhaustion error is raised only when no error was recorded.             *)
(***************************************************************************)
C2_LastErrorIsRaised ==
    /\ raised.origin = "invoker" =>
        /\ Len(calls) = Len(model_names)
        /\ \A i \in 1..Len(calls) : ~CallSucceeded(calls[i])
        /\ raised.model = Len(model_names)
        /\ raised.cls = (IF calls[Len(calls)].outcome = "reply"
                         THEN "ValueError" ELSE calls[Len(calls)].outcome)
    /\ raised = GenericExhaustion => last_error = NoError

\* the first failure is an endpoint error, the last an unparseable reply
C2_Witness ==
    /\ pc = "done"
    /\ raised.origin = "invoker"
    /\ calls[1].outcome = "APIError"
    /\ ParseFailed(calls[Len(calls)])
    /\ raised.cls = "ValueError"

(***************************************************************************)
(* C3, as claimed: whenever the header holds the override column, the      *)
(* loader takes the texts from it, for every column_name, one that is not  *)
(* in the header included.                                                 *)
(***************************************************************************)
C3_OverrideForAnyColumnName ==
    (pc # "start" /\ file.exists /\ Override \in file.header) =>
        (Loaded /\ TakenFrom(Override))

(***************************************************************************)
(* C3, amended: a column_name that is not in the header is a ValueError,   *)
(* override column or not; with column_name in the header the texts come   *)
(* from the override column when the header holds it, and from column_name *)
(* only when it does not.                                                  *)
(***************************************************************************)
C3_OverrideWhenColumnExists ==
    (pc # "start" /\ file.exists /\ file.header # {}) =>
        IF column_name \notin file.header
        THEN raised = MissingColumn /\ reviews_list = <<>>
        ELSE /\ Loaded
             /\ TakenFrom(IF Override \in file.header THEN Override ELSE column_name)

\* the requested column and the override column hold different texts
C3_Witness ==
    /\ Loaded
    /\ column_name = "body"
    /\ file.header = Columns
    /\ reviews_list = <<<<"o", "k">>>>
    /\ file.rows[1][Override] = <<"o", "k">>
    /\ file.rows[1]["body"] = <<" ">>

(***************************************************************************)
(* C4, as claimed: a file that exists and has no data rows (a header row   *)
(* alone included) makes the loader fail with the empty-data error before  *)
(* any model call.  Stated for the inputs where no other loader error      *)
(* competes: the requested column is in the header, or there is no header. *)
(***************************************************************************)
C4_NoRowsIsEmptyDataError ==
    (/\ pc # "start"
     /\ file.exists
     /\ file.rows = <<>>
     /\ (file.header = {} \/ column_name \in file.header)) =>
        (raised = EmptyCsv /\ calls = <<>>)

C6_FenceStrippingRecoversObject ==
    pc = "cleaned" =>
        \A w \in Wraps, padded \in BOOLEAN, v \in Values :
            raw = Wrap(w, padded, v) => result = ObjectValue(v)

(***************************************************************************)
(* C7: a failed write in salva_risultati is logged and goes no further:    *)
(* the report is on the console before the write is tried, the JSON dump   *)
(* is still printed, and the run ends with exit code 0.                    *)
(***************************************************************************)
C7_SaveFailureIsSwallowed ==
    /\ pc = "save" => "report" \in Range(stdout)
    /\ SaveFailed =>
        /\ raised = NoError
        /\ "report" \in Range(stdout)
        /\ pc \in {"dump", "done"}
        /\ pc = "done" => (exit_code = 0 /\ stdout[Len(stdout)] = "json_dump")

C7_Witness ==
    /\ SaveFailed
    /\ pc = "done"
    /\ exit_code = 0
    /\ saved = NoValue

(***************************************************************************)
(* C8, as claimed: after a reply that fails JSON parsing, last_error is a  *)
(* ValueError that carries the JSON decode error and the first 500         *)
(* characters of the reply, and the loop goes on to the next identifier.   *)
(***************************************************************************)
C8_ParseErrorCarriesReplyText ==
    (calls # <<>> /\ ParseFailed(calls[Len(calls)])) =>
        /\ last_error.cls = "ValueError"
        /\ last_error.model = Len(calls)
        /\ {"json_decode_error", "reply_text"} \subseteq last_error.carries
        /\ idx = Len(calls) + 1

(***************************************************************************)
(* C8, amended: last_error is a ValueError that carries the JSON decode    *)
(* error only; the first 500 characters of the reply are written to the    *)
(* log at level error; the loop goes on to the next identifier without     *)
(* returning.                                                              *)
(***************************************************************************)
C8_ParseErrorCarriesDecodeError ==
    (calls # <<>> /\ ParseFailed(calls[Len(calls)])) =>
        /\ last_error.cls = "ValueError"
        /\ last_error.model = Len(calls)
        /\ last_error.carries = {"json_decode_error"}
        /\ log[Len(log)] \in
              {LogRecord("error", "reply_text", Len(calls),
                         TakeFirst(CleanFence(Strip(calls[Len(calls)].reply)), 500)),
               LogRecord("error", "all_models_failed", 0, <<>>),
               LogRecord("error", "run_error", 0, <<>>)}
        /\ \E i \in 1..Len(log) :
              log[i] = LogRecord("error", "reply_text", Len(calls),
                                 TakeFirst(CleanFence(Strip(calls[Len(calls)].reply)), 500))
        /\ idx = Len(calls) + 1
        /\ result = NoValue
        /\ pc = "loop" \/ Len(calls) = Len(model_names)

\* the first identifier's reply does not parse and the loop stands at the second
C8_Witness ==
    /\ pc = "loop"
    /\ Len(calls) = 1
    /\ ParseFailed(calls[1])
    /\ idx = 2
    /\ log[Len(log)].text = <<"o", "k">>

(***************************************************************************)
(* C9: each identifier is called at most once, in list order, the k-th     *)
(* only after the k-1 before it failed, every call with the same sampling  *)
(* configuration; no identifier is tried again, so a call of analizza_dati *)
(* makes at most five endpoint calls.                                      *)
(***************************************************************************)
C9_EachIdentifierOnceInOrder ==
    /\ Len(calls) <= Len(model_names)
    /\ \A i \in 1..Len(calls) :
        /\ calls[i].model = model_names[i]
        /\ calls[i].config = generation_config
        /\ \A j \in 1..(i - 1) :
            /\ calls[j].model # calls[i].model
            /\ ~CallSucceeded(calls[j])
    /\ pc = "loop" => idx = Len(calls) + 1

\* all five identifiers were called and the run is over
C9_Witness ==
    /\ pc = "done"
    /\ Len(calls) = Len(model_names)
    /\ raised.origin = "invoker"

(***************************************************************************)
(* C10: a rendered block carries the 1-based position its row has in the   *)
(* head slice before filtering: labels increase strictly, one number is    *)
(* skipped for every row left out, and the largest label, which can exceed *)
(* the number of blocks, never exceeds numero_recensioni_analizzate.       *)
(***************************************************************************)
C10_LabelsArePreFilterPositions ==
    Loaded =>
        /\ prompt.numero_recensioni_analizzate = Len(reviews_list)
        /\ prompt.feedback = reviews
        /\ \A j \in 1..Len(reviews) :
            /\ reviews[j].label \in j..prompt.numero_recensioni_analizzate
            /\ reviews[j].text = reviews_list[reviews[j].label]
            /\ j > 1 => reviews[j - 1].label < reviews[j].label
        /\ Cardinality((1..Len(reviews_list)) \ Labels) = Len(reviews_list) - Len(reviews)

\* a row was left out before a rendered one: the largest label exceeds the
\* number of blocks
C10_Witness ==
    /\ Loaded
    /\ Len(reviews) = 1
    /\ reviews[1].label = 2
    /\ prompt.numero_recensioni_analizzate = 2

====
